---------------------------- MODULE Spec2Model ----------------------------
(***************************************************************************)
(* Model of the Node.js front end of puku (generate/node): the import      *)
(* classifier (classifyImportType, IsNodeBuiltin), the local module        *)
(* resolver (ResolveRelativeImport), the target lookup (FindPackageTarget) *)
(* and File.ResolveDependency; the roles of the source files              *)
(* (classifyFileType, File.KindType) and the parse of the files of a       *)
(* directory (ImportDir, parseFile, extractImportsAndExports).              *)
(*                                                                         *)
(* Strings are TLA+ strings handled character by character (Len, SubSeq,   *)
(* \o), so prefixes, suffixes, extensions and path cleaning are computed   *)
(* the way the Go standard library computes them.  The filesystem is an    *)
(* input of the resolver: a set of regular files and a set of directories. *)
(***************************************************************************)
EXTENDS Naturals, Sequences, FiniteSets, TLC

VARIABLES
    fs,          \* the filesystem: [files: set of paths, dirs: set of paths]
    currentDir,  \* the directory of the importing file
    importPath,  \* the raw import path string
    knownTargets,\* the known-target overrides of the merged configuration
    listing,     \* the entries of the directory ImportDir reads
    call,        \* the last call made and what it returned
    prev         \* the call before it, where repeated calls are followed

\* what the calls read
inputs == <<fs, currentDir, importPath, knownTargets, listing>>

vars == <<inputs, call, prev>>

(***************************************************************************)
(* Bounds of the model.                                                    *)
(***************************************************************************)
\* an import path is a concatenation of at most MaxSegs segments of Segs
MaxSegs == 4
\* at most MaxEntries files and directories exist below the importing
\* directories (besides the importing directories and the root)
MaxEntries == 2
\* the content of a file whose role is asked has at most MaxContent bytes
MaxContent == 3
\* a parsed file has at most MaxStmts statements
MaxStmts == 2
\* a directory read by ImportDir has at most MaxFiles entries
MaxFiles == 3

(***************************************************************************)
(* package strings                                                         *)
(***************************************************************************)
HasPrefix(s, prefix) ==
    Len(s) >= Len(prefix) /\ SubSeq(s, 1, Len(prefix)) = prefix

HasSuffix(s, suffix) ==
    Len(s) >= Len(suffix) /\ SubSeq(s, Len(s) - Len(suffix) + 1, Len(s)) = suffix

TrimPrefix(s, prefix) ==
    IF HasPrefix(s, prefix) THEN SubSeq(s, Len(prefix) + 1, Len(s)) ELSE s

\* the positions of the byte c in s
Positions(s, c) == {i \in 1..Len(s) : SubSeq(s, i, i) = c}

SetMax(S) == CHOOSE m \in S : \A n \in S : n <= m

SetMin(S) == CHOOSE m \in S : \A n \in S : m <= n

\* strings.LastIndex, 1-based; 0 when c does not occur
LastIndex(s, c) == IF Positions(s, c) = {} THEN 0 ELSE SetMax(Positions(s, c))

\* strings.Index, 1-based; 0 when c does not occur
Index(s, c) == IF Positions(s, c) = {} THEN 0 ELSE SetMin(Positions(s, c))

\* strings.ToLower on ASCII letters
LowerChar(c) ==
    LET upper == "ABCDEFGHIJKLMNOPQRSTUVWXYZ"
        lower == "abcdefghijklmnopqrstuvwxyz"
        at == Positions(upper, c)
    IN  IF at = {} THEN c ELSE SubSeq(lower, SetMin(at), SetMin(at))

RECURSIVE ToLower(_)
ToLower(s) == IF s = "" THEN "" ELSE LowerChar(Head(s)) \o ToLower(Tail(s))

\* fmt's %q of a string that needs no escaping
Quote(s) == "\"" \o s \o "\""

(***************************************************************************)
(* package path/filepath (Unix)                                            *)
(***************************************************************************)
\* the elements of a path between its separators
RECURSIVE SplitSlash(_)
SplitSlash(s) ==
    IF s = "" THEN <<"">>
    ELSE LET rest == SplitSlash(Tail(s))
         IN  IF Head(s) = "/" THEN <<"">> \o rest
             ELSE <<Head(s) \o Head(rest)>> \o Tail(rest)

RECURSIVE JoinSlash(_)
JoinSlash(elems) ==
    IF Len(elems) = 0 THEN ""
    ELSE IF Len(elems) = 1 THEN elems[1]
    ELSE elems[1] \o "/" \o JoinSlash(Tail(elems))

\* Clean's pass over the elements: drop empty and "." elements, let ".."
\* remove the element before it, keep a leading ".." of an unrooted path
RECURSIVE CleanElems(_, _, _)
CleanElems(elems, out, rooted) ==
    IF Len(elems) = 0 THEN out
    ELSE LET e == Head(elems)
             rest == Tail(elems)
         IN  IF e = "" \/ e = "." THEN CleanElems(rest, out, rooted)
             ELSE IF e = ".." THEN
                 IF Len(out) > 0 /\ out[Len(out)] # ".."
                 THEN CleanElems(rest, SubSeq(out, 1, Len(out) - 1), rooted)
                 ELSE IF rooted THEN CleanElems(rest, out, rooted)
                 ELSE CleanElems(rest, Append(out, ".."), rooted)
             ELSE CleanElems(rest, Append(out, e), rooted)

\* filepath.Clean
Clean(path) ==
    LET rooted == HasPrefix(path, "/")
        body == JoinSlash(CleanElems(SplitSlash(path), <<>>, rooted))
    IN  IF rooted THEN "/" \o body
        ELSE IF body = "" THEN "." ELSE body

\* filepath.Join of two elements
Join(a, b) ==
    IF a # "" THEN Clean(a \o "/" \o b)
    ELSE IF b # "" THEN Clean(b)
    ELSE ""

\* filepath.Dir
Dir(path) == Clean(SubSeq(path, 1, LastIndex(path, "/")))

\* a path without its trailing separators
RECURSIVE StripTrailingSlashes(_)
StripTrailingSlashes(path) ==
    IF Len(path) > 0 /\ HasSuffix(path, "/")
    THEN StripTrailingSlashes(SubSeq(path, 1, Len(path) - 1))
    ELSE path

\* filepath.Base
Base(path) ==
    IF path = "" THEN "."
    ELSE LET p == StripTrailingSlashes(path)
             b == SubSeq(p, LastIndex(p, "/") + 1, Len(p))
         IN  IF b = "" THEN "/" ELSE b

\* filepath.Ext: the suffix that starts at the last dot of the last element
Ext(path) ==
    LET dot == LastIndex(path, ".")
    IN  IF dot > LastIndex(path, "/") THEN SubSeq(path, dot, Len(path)) ELSE ""

(***************************************************************************)
(* The import classifier                                                   *)
(***************************************************************************)
RelativeImport == "RelativeImport"
BareImport == "BareImport"
BuiltinImport == "BuiltinImport"
AssetImport == "AssetImport"

\* the builtin allow-list (the names the tests use)
nodeBuiltins == {"fs", "path", "crypto", "util"}

\* IsNodeBuiltin matching without regard to letter case
IsNodeBuiltin_anyCase(modulePath) ==
    LET name == ToLower(TrimPrefix(modulePath, "node:"))
        slash == Index(name, "/")
    IN  \/ name \in nodeBuiltins
        \/ slash > 1 /\ SubSeq(name, 1, slash - 1) \in nodeBuiltins

\* a module path is builtin when, without the node: scheme, it is an
\* allow-listed name or a submodule of one
IsNodeBuiltin(modulePath) ==
    LET name == TrimPrefix(modulePath, "node:")
        slash == Index(name, "/")
    IN  \/ name \in nodeBuiltins
        \/ slash > 1 /\ SubSeq(name, 1, slash - 1) \in nodeBuiltins

AssetExts == {".css", ".scss", ".less", ".json", ".png", ".jpg", ".svg", ".gif"}

\* classifyImportType, the variant with the AssetImport kind
classifyImportType(p) ==
    IF IsNodeBuiltin(p) THEN BuiltinImport
    ELSE IF HasPrefix(p, "./") \/ HasPrefix(p, "../") \/ p = "." \/ p = ".."
         THEN RelativeImport
    ELSE IF Ext(p) \in AssetExts THEN AssetImport
    ELSE BareImport

\* classifyImportType_noAsset looking the path up in the allow-list as written
classifyImportType_noAsset_exactOnly(p) ==
    IF p \in nodeBuiltins THEN BuiltinImport
    ELSE IF HasPrefix(p, "./") \/ HasPrefix(p, "../") \/ p = "." \/ p = ".."
         THEN RelativeImport
    ELSE BareImport

\* classifyImportType_noAsset taking the node: scheme alone for a builtin
classifyImportType_noAsset_anyScheme(p) ==
    IF IsNodeBuiltin(p) \/ HasPrefix(p, "node:") THEN BuiltinImport
    ELSE IF HasPrefix(p, "./") \/ HasPrefix(p, "../") \/ p = "." \/ p = ".."
         THEN RelativeImport
    ELSE BareImport

\* classifyImportType, the variant without the AssetImport kind
classifyImportType_noAsset(p) ==
    IF IsNodeBuiltin(p) THEN BuiltinImport
    ELSE IF HasPrefix(p, "./") \/ HasPrefix(p, "../") \/ p = "." \/ p = ".."
         THEN RelativeImport
    ELSE BareImport

(***************************************************************************)
(* The filesystem and os.Stat                                              *)
(***************************************************************************)
\* the proper ancestors of a path, the root excluded
Ancestors(path) == {SubSeq(path, 1, i - 1) : i \in Positions(path, "/") \ {1}}

\* os.Stat's outcome: "ok", or the errno of the failure.  A path below a
\* regular file fails with ENOTDIR, any other missing path with ENOENT.
Stat(f, path) ==
    IF \E a \in Ancestors(path) : a \in f.files THEN "ENOTDIR"
    ELSE IF path = "/" \/ path \in f.files \/ path \in f.dirs THEN "ok"
    ELSE "ENOENT"

\* os.IsNotExist of a Stat outcome: ENOENT alone
IsNotExist(st) == st = "ENOENT"

(***************************************************************************)
(* Errors: nil, or an error with its message                               *)
(***************************************************************************)
NoErr == [nil |-> TRUE, msg |-> ""]

Errorf(m) == [nil |-> FALSE, msg |-> m]

(***************************************************************************)
(* The local module resolver                                               *)
(***************************************************************************)
\* the extension priority list of ResolveRelativeImport
Exts == <<".js", ".ts", ".jsx", ".tsx", ".mjs", ".cjs">>

\* the loop over the extensions: base + the first extension whose Stat
\* succeeds, "" when none does
FirstExisting(f, base) ==
    LET hits == {i \in 1..Len(Exts) : Stat(f, base \o Exts[i]) = "ok"}
    IN  IF hits = {} THEN "" ELSE base \o Exts[SetMin(hits)]

\* ResolveRelativeImport taking every path that starts with a dot for relative
ResolveRelativeImport_anyDot(f, dir, p) ==
    IF p = "" THEN [path |-> "", err |-> Errorf("empty import path")]
    ELSE IF HasPrefix(p, ".")
    THEN LET cleanPath == Clean(Join(dir, p))
         IN  IF IsNotExist(Stat(f, cleanPath))
             THEN [path |-> "",
                   err |-> Errorf("could not resolve import " \o Quote(p)
                                  \o " from " \o Quote(dir))]
             ELSE [path |-> cleanPath, err |-> NoErr]
    ELSE [path |-> "", err |-> Errorf("not a relative import: " \o Quote(p))]

ResolveRelativeImport(f, dir, p) ==
    IF p = "" THEN [path |-> "", err |-> Errorf("empty import path")]
    ELSE IF HasPrefix(p, "./") \/ HasPrefix(p, "../") \/ p = "." \/ p = ".."
    THEN LET absPath == Join(dir, p)
             cleanPath == Clean(absPath)
             indexPath == Join(cleanPath, "index")
         IN  IF IsNotExist(Stat(f, cleanPath))
             THEN IF FirstExisting(f, cleanPath) # ""
                  THEN [path |-> FirstExisting(f, cleanPath), err |-> NoErr]
                  ELSE IF FirstExisting(f, indexPath) # ""
                  THEN [path |-> FirstExisting(f, indexPath), err |-> NoErr]
                  ELSE [path |-> "",
                        err |-> Errorf("could not resolve import " \o Quote(p)
                                       \o " from " \o Quote(dir))]
             ELSE [path |-> cleanPath, err |-> NoErr]
    ELSE [path |-> "", err |-> Errorf("not a relative import: " \o Quote(p))]

FindPackageTarget(f, dir) ==
    LET buildFile == Join(dir, "BUILD")
    IN  IF IsNotExist(Stat(f, buildFile))
        THEN [target |-> "", err |-> NoErr]
        ELSE [target |-> "//" \o Base(dir), err |-> NoErr]

\* the directory ResolveDependency looks the target up in
TargetDirOf(resolvedPath) ==
    IF ~HasSuffix(resolvedPath, "/") THEN Dir(resolvedPath) ELSE resolvedPath

\* ResolveDependency looking a builtin import up like a relative one
ResolveDependency_builtinLookedUp(f, imp, dir) ==
    IF imp.Type \in {BuiltinImport, RelativeImport}
    THEN LET r == ResolveRelativeImport(f, dir, imp.Path)
             targetDir == TargetDirOf(r.path)
             t == FindPackageTarget(f, targetDir)
         IN  IF ~r.err.nil
             THEN [target |-> "",
                   err |-> Errorf("resolving relative import " \o Quote(imp.Path)
                                  \o ": " \o r.err.msg),
                   lookedUp |-> ""]
             ELSE [target |-> t.target, err |-> NoErr, lookedUp |-> targetDir]
    ELSE [target |-> "",
          err |-> Errorf("bare import resolution not implemented: " \o Quote(imp.Path)),
          lookedUp |-> ""]

\* ResolveDependency guessing a target for the bare imports it gives up on
ResolveDependency_bareGuessed(f, imp, dir) ==
    IF imp.Type = BuiltinImport
    THEN [target |-> "", err |-> NoErr, lookedUp |-> ""]
    ELSE IF imp.Type = RelativeImport
    THEN LET r == ResolveRelativeImport(f, dir, imp.Path)
             targetDir == TargetDirOf(r.path)
             t == FindPackageTarget(f, targetDir)
         IN  IF ~r.err.nil
             THEN [target |-> "",
                   err |-> Errorf("resolving relative import " \o Quote(imp.Path)
                                  \o ": " \o r.err.msg),
                   lookedUp |-> ""]
             ELSE IF ~t.err.nil
             THEN [target |-> "",
                   err |-> Errorf("finding package target in " \o Quote(targetDir)
                                  \o ": " \o t.err.msg),
                   lookedUp |-> targetDir]
             ELSE [target |-> t.target, err |-> NoErr, lookedUp |-> targetDir]
    ELSE IF imp.Type = BareImport
    THEN [target |-> "//third_party/js:" \o imp.Path,
          err |-> Errorf("bare import resolution not implemented"),
          lookedUp |-> ""]
    ELSE [target |-> "",
          err |-> Errorf("unknown import type for " \o Quote(imp.Path)),
          lookedUp |-> ""]

\* File.ResolveDependency; lookedUp is the directory handed to
\* FindPackageTarget ("" when the lookup is not reached)
ResolveDependency(f, imp, dir) ==
    IF imp.Type = BuiltinImport
    THEN [target |-> "", err |-> NoErr, lookedUp |-> ""]
    ELSE IF imp.Type = RelativeImport
    THEN LET r == ResolveRelativeImport(f, dir, imp.Path)
             targetDir == TargetDirOf(r.path)
             t == FindPackageTarget(f, targetDir)
         IN  IF ~r.err.nil
             THEN [target |-> "",
                   err |-> Errorf("resolving relative import " \o Quote(imp.Path)
                                  \o ": " \o r.err.msg),
                   lookedUp |-> ""]
             ELSE IF ~t.err.nil
             THEN [target |-> "",
                   err |-> Errorf("finding package target in " \o Quote(targetDir)
                                  \o ": " \o t.err.msg),
                   lookedUp |-> targetDir]
             ELSE [target |-> t.target, err |-> NoErr, lookedUp |-> targetDir]
    ELSE IF imp.Type = BareImport
    THEN [target |-> "",
          err |-> Errorf("bare import resolution not implemented: " \o Quote(imp.Path)),
          lookedUp |-> ""]
    ELSE [target |-> "",
          err |-> Errorf("unknown import type for " \o Quote(imp.Path)),
          lookedUp |-> ""]

(***************************************************************************)
(* Source files: roles, kinds and the parse of a file (import.go)          *)
(***************************************************************************)
\* strings.Contains
Contains(s, substr) ==
    /\ Len(s) >= Len(substr)
    /\ \E i \in 1..(Len(s) - Len(substr) + 1) :
         SubSeq(s, i, i + Len(substr) - 1) = substr

RECURSIVE TrimLeft(_, _)
TrimLeft(s, cutset) ==
    IF s # "" /\ Contains(cutset, Head(s)) THEN TrimLeft(Tail(s), cutset) ELSE s

RECURSIVE TrimRight(_, _)
TrimRight(s, cutset) ==
    IF s # "" /\ Contains(cutset, SubSeq(s, Len(s), Len(s)))
    THEN TrimRight(SubSeq(s, 1, Len(s) - 1), cutset)
    ELSE s

\* strings.Trim
Trim(s, cutset) == TrimRight(TrimLeft(s, cutset), cutset)

\* FileType
Library == "Library"
Test == "Test"
Binary == "Binary"

\* package kinds
kindsLib == "kinds.Lib"
kindsTest == "kinds.Test"
kindsBin == "kinds.Bin"

IsTest(f) == f.FileType = Test

IsCmd(f) == f.FileType = Binary

\* KindType without the branch of the commands
KindType_cmdAsLib(f) == IF IsTest(f) THEN kindsTest ELSE kindsLib

KindType(f) ==
    IF IsTest(f) THEN kindsTest
    ELSE IF IsCmd(f) THEN kindsBin
    ELSE kindsLib

isJavaScriptFile(filename) ==
    Ext(filename) \in {".js", ".jsx", ".ts", ".tsx", ".mjs", ".cjs"}

inferPackageName(dir) == Base(dir)

classifyFileType(filename, content) ==
    LET base == ToLower(filename)
    IN  IF \/ Contains(base, ".test.") \/ Contains(base, ".spec.")
           \/ HasSuffix(base, "_test.js") \/ HasSuffix(base, "_test.ts")
           \/ HasSuffix(base, ".test.js") \/ HasSuffix(base, ".test.ts")
           \/ HasSuffix(base, ".spec.js") \/ HasSuffix(base, ".spec.ts")
        THEN Test
        ELSE IF Len(content) > 2 /\ SubSeq(content, 1, 2) = "#!"
        THEN Binary
        ELSE Library

(***************************************************************************)
(* What a file holds.  The content of a file is its head (the bytes before *)
(* its first statement) followed by its statements.  A statement is        *)
(*   [kind |-> "import", path, default, namespace, braces, named]          *)
(*       import default, * as namespace, {named...} from "path";           *)
(*       ("" for a part that is not written; braces tells whether the      *)
(*       braces are written; named holds [name, alias] pairs)              *)
(*   [kind |-> "export", text]     an export statement                     *)
(*   [kind |-> "block", body]      a block of statements                   *)
(* StmtText is the text of a statement and StmtNode the node the           *)
(* tree-sitter grammars make of it: anonymous tokens included, the text of *)
(* a node being the source it spans.                                       *)
(***************************************************************************)
RECURSIVE JoinWith(_, _)
JoinWith(strs, sep) ==
    IF Len(strs) = 0 THEN ""
    ELSE IF Len(strs) = 1 THEN strs[1]
    ELSE strs[1] \o sep \o JoinWith(Tail(strs), sep)

SpecifierText(sp) ==
    IF sp.alias = "" THEN sp.name ELSE sp.name \o " as " \o sp.alias

NamedText(named) ==
    "{" \o JoinWith([i \in DOMAIN named |-> SpecifierText(named[i])], ", ") \o "}"

\* the parts of the import clause of s, as written
ClauseParts(s) ==
    (IF s.default # "" THEN <<s.default>> ELSE <<>>)
    \o (IF s.namespace # "" THEN <<"* as " \o s.namespace>> ELSE <<>>)
    \o (IF s.braces THEN <<NamedText(s.named)>> ELSE <<>>)

ImportText(s) ==
    IF ClauseParts(s) = <<>>
    THEN "import " \o Quote(s.path) \o ";"
    ELSE "import " \o JoinWith(ClauseParts(s), ", ") \o " from " \o Quote(s.path) \o ";"

RECURSIVE StmtText(_)
StmtText(s) ==
    IF s.kind = "import" THEN ImportText(s)
    ELSE IF s.kind = "export" THEN s.text
    ELSE "{" \o JoinWith([i \in DOMAIN s.body |-> StmtText(s.body[i])], " ") \o "}"

StmtsText(stmts) == JoinWith([i \in DOMAIN stmts |-> StmtText(stmts[i])], "\n")

Node(type, text, children) == [type |-> type, text |-> text, children |-> children]

\* an anonymous token
Token(t) == Node(t, t, <<>>)

Identifier(name) == Node("identifier", name, <<>>)

SpecifierNode(sp) ==
    Node("import_specifier", SpecifierText(sp),
         IF sp.alias = "" THEN <<Identifier(sp.name)>>
         ELSE <<Identifier(sp.name), Token("as"), Identifier(sp.alias)>>)

\* nodes with a token between each two of them
RECURSIVE Separated(_, _)
Separated(nodes, sep) ==
    IF Len(nodes) <= 1 THEN nodes
    ELSE <<nodes[1], Token(sep)>> \o Separated(Tail(nodes), sep)

NamedNode(named) ==
    Node("named_imports", NamedText(named),
         <<Token("{")>>
         \o Separated([i \in DOMAIN named |-> SpecifierNode(named[i])], ",")
         \o <<Token("}")>>)

NamespaceNode(name) ==
    Node("namespace_import", "* as " \o name,
         <<Token("*"), Token("as"), Identifier(name)>>)

ClauseNode(s) ==
    Node("import_clause", JoinWith(ClauseParts(s), ", "),
         Separated((IF s.default # "" THEN <<Identifier(s.default)>> ELSE <<>>)
                   \o (IF s.namespace # "" THEN <<NamespaceNode(s.namespace)>> ELSE <<>>)
                   \o (IF s.braces THEN <<NamedNode(s.named)>> ELSE <<>>),
                   ","))

ImportNode(s) ==
    Node("import_statement", ImportText(s),
         <<Token("import")>>
         \o (IF ClauseParts(s) = <<>> THEN <<>> ELSE <<ClauseNode(s), Token("from")>>)
         \o <<Node("string", Quote(s.path), <<>>), Token(";")>>)

RECURSIVE StmtNode(_)
StmtNode(s) ==
    IF s.kind = "import" THEN ImportNode(s)
    ELSE IF s.kind = "export" THEN Node("export_statement", s.text, <<>>)
    ELSE Node("statement_block", StmtText(s),
              <<Token("{")>> \o [i \in DOMAIN s.body |-> StmtNode(s.body[i])]
              \o <<Token("}")>>)

\* os.ReadFile of an entry that can be read: the bytes of the file
ContentOf(e) == e.head \o StmtsText(e.stmts)

\* parser.ParseCtx and tree.RootNode: the root of the tree of the file.  The
\* parser recovers from malformed source and the context is never cancelled,
\* so no parse returns an error.
RootNode(e) ==
    Node("program", ContentOf(e),
         (IF HasPrefix(e.head, "#!") THEN <<Node("hash_bang_line", e.head, <<>>)>>
          ELSE <<>>)
         \o [i \in DOMAIN e.stmts |-> StmtNode(e.stmts[i])])

\* the identifier extractNamedImports and extractImportClause take from a
\* node: its first child of type identifier, if it has one
FirstIdentifier(node) ==
    LET ids == {j \in DOMAIN node.children : node.children[j].type = "identifier"}
    IN  IF ids = {} THEN <<>> ELSE <<node.children[SetMin(ids)].text>>

\* extractNamedImports stopping after the first specifier
RECURSIVE extractNamedImports_firstOnly(_, _, _)
extractNamedImports_firstOnly(node, i, names) ==
    IF i > Len(node.children) THEN names
    ELSE LET child == node.children[i]
         IN  IF child.type = "import_specifier"
             THEN names \o FirstIdentifier(child)
             ELSE extractNamedImports_firstOnly(node, i + 1, names)

\* extractNamedImports, from child i on
RECURSIVE extractNamedImports(_, _, _)
extractNamedImports(node, i, names) ==
    IF i > Len(node.children) THEN names
    ELSE LET child == node.children[i]
         IN  extractNamedImports(node, i + 1,
                 IF child.type = "import_specifier"
                 THEN names \o FirstIdentifier(child)
                 ELSE names)

\* extractImportClause, from child i on; acc holds names and hasDefault
RECURSIVE extractImportClause(_, _, _)
extractImportClause(node, i, acc) ==
    IF i > Len(node.children) THEN acc
    ELSE LET child == node.children[i]
         IN  extractImportClause(node, i + 1,
                 IF child.type = "identifier"
                 THEN [names |-> Append(acc.names, child.text), hasDefault |-> TRUE]
                 ELSE IF child.type = "namespace_import"
                 THEN [acc EXCEPT !.names = @ \o FirstIdentifier(child)]
                 ELSE IF child.type = "named_imports"
                 THEN [acc EXCEPT !.names = extractNamedImports(child, 1, @)]
                 ELSE acc)

\* ImportsOf without the test of the empty path
ImportsOf_emptyPathKept(node) ==
    LET strs == {i \in DOMAIN node.children : node.children[i].type = "string"}
        clauses == {i \in DOMAIN node.children : node.children[i].type = "import_clause"}
        pathStr == IF strs = {} THEN ""
                      ELSE Trim(node.children[SetMax(strs)].text, "\"'")
        clause == IF clauses = {} THEN [names |-> <<>>, hasDefault |-> FALSE]
                  ELSE extractImportClause(node.children[SetMax(clauses)], 1,
                                           [names |-> <<>>, hasDefault |-> FALSE])
        importedNames == clause.names
        importType == classifyImportType(pathStr)
    IN  IF Len(importedNames) = 0
        THEN <<[Path |-> pathStr, ImportedName |-> "", Type |-> importType,
                IsDefault |-> FALSE]>>
        ELSE [k \in 1..Len(importedNames) |->
                [Path |-> pathStr, ImportedName |-> importedNames[k],
                 Type |-> importType,
                 IsDefault |-> clause.hasDefault /\ importedNames[k] = importedNames[1]]]

\* the records extractImportStatement makes of an import statement: the last
\* string child gives the path and the last import_clause child the names
ImportsOf(node) ==
    LET strs == {i \in DOMAIN node.children : node.children[i].type = "string"}
        clauses == {i \in DOMAIN node.children : node.children[i].type = "import_clause"}
        pathStr == IF strs = {} THEN ""
                      ELSE Trim(node.children[SetMax(strs)].text, "\"'")
        clause == IF clauses = {} THEN [names |-> <<>>, hasDefault |-> FALSE]
                  ELSE extractImportClause(node.children[SetMax(clauses)], 1,
                                           [names |-> <<>>, hasDefault |-> FALSE])
        importedNames == clause.names
        importType == classifyImportType(pathStr)
    IN  IF pathStr = "" THEN <<>>
        ELSE IF Len(importedNames) = 0
        THEN <<[Path |-> pathStr, ImportedName |-> "", Type |-> importType,
                IsDefault |-> FALSE]>>
        ELSE [k \in 1..Len(importedNames) |->
                [Path |-> pathStr, ImportedName |-> importedNames[k],
                 Type |-> importType,
                 IsDefault |-> clause.hasDefault /\ importedNames[k] = importedNames[1]]]

\* extractImportStatement putting the records of a statement first
extractImportStatement_prepending(node, file) ==
    [file EXCEPT !.Imports = ImportsOf(node) \o @]

extractImportStatement(node, file) ==
    [file EXCEPT !.Imports = @ \o ImportsOf(node)]

\* checkForDefaultExport on the state st of a parse.  node.Content(nil)
\* slices a nil source up to the end byte of the node: a run-time panic for
\* every node that spans any source.
checkForDefaultExport(node, st) ==
    IF Len(node.text) > 0 THEN [st EXCEPT !.panic = TRUE]
    ELSE IF Contains(node.text, "default")
    THEN [st EXCEPT !.file.HasDefault = TRUE]
    ELSE st

\* extractImportsAndExports, from child i on; st is [panic, file]
RECURSIVE extractImportsAndExports(_, _, _)
extractImportsAndExports(node, i, st) ==
    IF st.panic \/ i > Len(node.children) THEN st
    ELSE LET child == node.children[i]
         IN  extractImportsAndExports(node, i + 1,
                 IF child.type = "import_statement"
                 THEN [st EXCEPT !.file = extractImportStatement(child, @)]
                 ELSE IF child.type = "export_statement"
                 THEN checkForDefaultExport(child, st)
                 ELSE extractImportsAndExports(child, 1, st))

\* the *File of a call that returns none
NilFile == [FileName |-> "<nil>"]

\* parseFile of the entry e of the directory dir
parseFile(dir, e) ==
    IF ~e.readable
    THEN [panic |-> FALSE, file |-> NilFile,
          err |-> Errorf("reading file: open " \o Join(dir, e.name)
                         \o ": permission denied")]
    ELSE LET file == [Name |-> inferPackageName(dir),
                      FileName |-> e.name,
                      FileType |-> classifyFileType(e.name, ContentOf(e)),
                      Imports |-> <<>>,
                      HasDefault |-> FALSE]
             st == extractImportsAndExports(RootNode(e), 1,
                                            [panic |-> FALSE, file |-> file])
         IN  IF st.panic
             THEN [panic |-> TRUE, file |-> NilFile, err |-> NoErr]
             ELSE [panic |-> FALSE, file |-> st.file, err |-> NoErr]

\* the map ret with f under the key name
MapPut(ret, name, f) ==
    [n \in DOMAIN ret \cup {name} |-> IF n = name THEN f ELSE ret[n]]

\* the empty map, and the map of a call that returns nil
NoFiles == [n \in {} |-> NilFile]

\* the loop of ImportDir over the entries, from entry i on
RECURSIVE ImportDirLoop(_, _, _, _)
ImportDirLoop(dir, entries, i, ret) ==
    IF i > Len(entries)
    THEN [panic |-> FALSE, isNil |-> FALSE, ret |-> ret, err |-> NoErr]
    ELSE LET info == entries[i]
             r == parseFile(dir, info)
         IN  IF ~info.regular \/ ~isJavaScriptFile(info.name)
             THEN ImportDirLoop(dir, entries, i + 1, ret)
             ELSE IF r.panic
             THEN [panic |-> TRUE, isNil |-> TRUE, ret |-> NoFiles, err |-> NoErr]
             ELSE IF ~r.err.nil
             THEN [panic |-> FALSE, isNil |-> TRUE, ret |-> NoFiles,
                   err |-> Errorf("parsing " \o info.name \o ": " \o r.err.msg)]
             ELSE ImportDirLoop(dir, entries, i + 1, MapPut(ret, info.name, r.file))

\* ImportDir of the directory dir whose os.ReadDir gives l
ImportDir(dir, l) ==
    IF ~l.ok
    THEN [panic |-> FALSE, isNil |-> TRUE, ret |-> NoFiles,
          err |-> Errorf("open " \o dir \o ": no such file or directory")]
    ELSE ImportDirLoop(dir, l.entries, 1, NoFiles)

(***************************************************************************)
(* Inputs                                                                  *)
(***************************************************************************)
\* the segments import paths are built from
Segs == {".", "/", "a", "fs", "f", "FS", "node:", ".css"}

\* the concatenations of exactly n segments
RECURSIVE SegStrings(_)
SegStrings(n) ==
    IF n = 0 THEN {""}
    ELSE {s \o t : s \in SegStrings(n - 1), t \in Segs}

\* the import paths the classifier is run on
Paths == UNION {SegStrings(n) : n \in 0..MaxSegs}

\* the directories an importing file lives in
CurrentDirs == {"/p/q", "/p"}

\* the import paths the resolver is run on
ImportPaths ==
    {"", ".", "..", "./a", "./a/", "../q/a", "./q/a", "./a/b", "./a.js",
     "lodash", "fs", "node:fs", ".a", "a.css"}

\* the files that may exist: a, a.<ext>, a/index.<ext> and the BUILD files
FileNodes ==
    {"/p/q/a", "/p/q/a/BUILD", "/p/q/BUILD", "/p/BUILD"}
    \cup {"/p/q/a" \o Exts[i] : i \in 1..Len(Exts)}
    \cup {"/p/q/a/index" \o Exts[i] : i \in 1..Len(Exts)}

\* the directories that always exist: the importing directories and the root
BaseDirs == {"/", "/p", "/p/q"}

\* the directories that may exist besides them
DirNodes == {"/p/q/a"}

\* a filesystem is well formed when nothing is both a file and a directory
\* and everything that exists lies in a directory
WellFormed(f) ==
    /\ f.files \cap f.dirs = {}
    /\ \A n \in f.files \cup f.dirs : n = "/" \/ Dir(n) \in f.dirs

FsStates ==
    {f \in [files : SUBSET FileNodes,
            dirs : {d \cup BaseDirs : d \in SUBSET DirNodes}] :
        /\ Cardinality(f.files) + Cardinality(f.dirs \ BaseDirs) <= MaxEntries
        /\ WellFormed(f)}

NoCall == [op |-> "none"]

\* prev where repeated calls are not followed
Untracked == [op |-> "untracked"]

\* the merged configuration without overrides
NoOverrides == {}

\* the known-target overrides a configuration may hold, keyed by import path
Overrides ==
    {[path |-> "lodash", target |-> "//third_party/js:lodash"],
     [path |-> "a.css", target |-> "//assets:a_css"]}

\* package units, two of them of the same name, and the directories above
UnitDirs == {"/a/utils", "/b/utils", "/a/lib"}

UnitParents == {"/a", "/b"}

\* the trees of the package units: each directory with its BUILD file or not
TargetTrees ==
    {[files |-> {Join(d, "BUILD") : d \in withBuild},
      dirs |-> BaseDirs \cup UnitParents \cup UnitDirs] :
        withBuild \in SUBSET (UnitParents \cup UnitDirs)}

\* the import paths resolved repeatedly
RepeatPaths == {"./a", "./a.js", "fs", "lodash"}

\* os.ReadDir of a directory that holds nothing
NoListing == [ok |-> TRUE, entries |-> <<>>]

\* an entry of a directory and the file behind it
Entry(name, regular, readable, head, stmts) ==
    [name |-> name, regular |-> regular, readable |-> readable,
     head |-> head, stmts |-> stmts]

\* the sequences of at most n elements of S
SeqsUpTo(S, n) == UNION {[1..k -> S] : k \in 0..n}

\* the bytes the contents are made of
ContentBytes == {"#", "!", "a"}

RECURSIVE ContentsOfLen(_)
ContentsOfLen(n) ==
    IF n = 0 THEN {""}
    ELSE {c \o b : c \in ContentsOfLen(n - 1), b \in ContentBytes}

Contents == UNION {ContentsOfLen(n) : n \in 0..MaxContent}

\* the file names whose role is asked: a stem, a test marker or none, an
\* extension; and names that hold a marker without being of the test forms
FileNames ==
    {"foo" \o m \o x :
        m \in {"", ".test", ".TEST", ".spec", ".Spec", "_test", "_TEST"},
        x \in {".js", ".jsx", ".ts", ".tsx", ".mjs", ".cjs"}}
    \cup {"test.js", "contest.ts", "foo.spec", "foo_test.d.ts", "Main.JS"}

ImportStmt(path, default, namespace, braces, named) ==
    [kind |-> "import", path |-> path, default |-> default,
     namespace |-> namespace, braces |-> braces, named |-> named]

Specifier(name, alias) == [name |-> name, alias |-> alias]

\* the statements the parsed files are made of
StmtPool ==
    {ImportStmt("./s.css", "", "", FALSE, <<>>),
     ImportStmt("./a", "d", "", FALSE, <<>>),
     ImportStmt("fs", "", "ns", FALSE, <<>>),
     ImportStmt("lodash", "", "", TRUE, <<Specifier("x", ""), Specifier("y", "z")>>),
     ImportStmt("./b", "d", "", TRUE, <<Specifier("x", "")>>),
     ImportStmt("m", "x", "", TRUE, <<Specifier("x", "y")>>),
     ImportStmt("", "d", "", FALSE, <<>>),
     [kind |-> "export", text |-> "export default d;"],
     [kind |-> "export", text |-> "export const defaultValue = 1;"],
     [kind |-> "block", body |-> <<ImportStmt("./c", "e", "", FALSE, <<>>)>>]}

Sources == SeqsUpTo(StmtPool, MaxStmts)

Heads == {"", "#!/usr/bin/env node\n"}

\* the names of the entries of a directory, in the order os.ReadDir gives
DirNames == <<"a.js", "b.ts", "c.txt", "d.mjs", "e.test.js">>

\* what lies behind a name of the directory
Variants == {"good", "unreadable", "dir", "exporting"}

EntryOf(name, variant) ==
    IF variant = "good"
    THEN Entry(name, TRUE, TRUE, "", <<ImportStmt("./a", "d", "", FALSE, <<>>)>>)
    ELSE IF variant = "unreadable"
    THEN Entry(name, TRUE, FALSE, "", <<>>)
    ELSE IF variant = "dir"
    THEN Entry(name, FALSE, FALSE, "", <<>>)
    ELSE Entry(name, TRUE, TRUE, "", <<[kind |-> "export", text |-> "export default d;"]>>)

\* the entries of a choice of variants, in the order of the names
RECURSIVE EntriesFrom(_, _)
EntriesFrom(choice, i) ==
    IF i > Len(DirNames) THEN <<>>
    ELSE (IF choice[i] = "absent" THEN <<>> ELSE <<EntryOf(DirNames[i], choice[i])>>)
         \o EntriesFrom(choice, i + 1)

Listings ==
    {[ok |-> FALSE, entries |-> <<>>]}
    \cup {[ok |-> TRUE, entries |-> EntriesFrom(choice, 1)] :
            choice \in {c \in [DOMAIN DirNames -> Variants \cup {"absent"}] :
                          Cardinality({i \in DOMAIN c : c[i] # "absent"}) <= MaxFiles}}

\* a call returns: it becomes the call before where repeated calls are
\* followed, and has changed nothing it read
Returned ==
    /\ prev' = IF prev.op = "untracked" THEN prev ELSE call
    /\ UNCHANGED inputs

(***************************************************************************)
(* The classifier on its own: any import path, a filesystem that holds     *)
(* only the importing directory                                            *)
(***************************************************************************)
InitClassify ==
    /\ fs = [files |-> {}, dirs |-> BaseDirs]
    /\ currentDir = "/p/q"
    /\ importPath \in Paths
    /\ knownTargets = NoOverrides
    /\ listing = NoListing
    /\ call = NoCall
    /\ prev = Untracked

(***************************************************************************)
(* The resolver: any filesystem within the bounds                          *)
(***************************************************************************)
Init ==
    /\ fs \in FsStates
    /\ currentDir \in CurrentDirs
    /\ importPath \in ImportPaths
    /\ knownTargets = NoOverrides
    /\ listing = NoListing
    /\ call = NoCall
    /\ prev = Untracked

\* everything the files are not read from
NoResolution ==
    /\ fs = [files |-> {}, dirs |-> BaseDirs]
    /\ currentDir = "/p/q"
    /\ importPath = ""
    /\ knownTargets = NoOverrides
    /\ call = NoCall
    /\ prev = Untracked

\* one file whose role is asked
InitFileType ==
    /\ NoResolution
    /\ \E name \in FileNames, content \in Contents :
          listing = [ok |-> TRUE,
                     entries |-> <<Entry(name, TRUE, TRUE, content, <<>>)>>]

\* one file that is parsed
InitParse ==
    /\ NoResolution
    /\ \E name \in {"m.ts", "m_test.tsx"}, head \in Heads, stmts \in Sources :
          listing = [ok |-> TRUE,
                     entries |-> <<Entry(name, TRUE, TRUE, head, stmts)>>]

\* a directory that is read
InitDir ==
    /\ NoResolution
    /\ listing \in Listings

\* resolution under a merged configuration, in a tree without source files
InitConfig ==
    /\ fs \in {f \in FsStates : f.files = {}}
    /\ currentDir \in CurrentDirs
    /\ importPath \in ImportPaths
    /\ knownTargets \in SUBSET Overrides
    /\ listing = NoListing
    /\ call = NoCall
    /\ prev = Untracked

\* target lookup in the trees of the package units
InitTargets ==
    /\ fs \in TargetTrees
    /\ currentDir = "/a/lib"
    /\ importPath = "../utils"
    /\ knownTargets = NoOverrides
    /\ listing = NoListing
    /\ call = NoCall
    /\ prev = Untracked

\* resolution where each call is followed by the next one
InitRepeat ==
    /\ fs \in FsStates
    /\ currentDir = "/p/q"
    /\ importPath \in RepeatPaths
    /\ knownTargets = NoOverrides
    /\ listing = NoListing
    /\ call = NoCall
    /\ prev = NoCall

CallIsNodeBuiltin ==
    /\ call' = [op |-> "IsNodeBuiltin", ret |-> IsNodeBuiltin(importPath)]
    /\ Returned

CallClassifyImportType ==
    /\ call' = [op |-> "classifyImportType", kind |-> classifyImportType(importPath)]
    /\ Returned

CallClassifyImportTypeNoAsset ==
    /\ call' = [op |-> "classifyImportType_noAsset",
                kind |-> classifyImportType_noAsset(importPath)]
    /\ Returned

CallResolveRelativeImport ==
    LET r == ResolveRelativeImport(fs, currentDir, importPath)
    IN  /\ call' = [op |-> "ResolveRelativeImport", path |-> r.path, err |-> r.err]
        /\ Returned

\* the directories FindPackageTarget is asked about: the importing
\* directories, the directories that may exist and those that do, the root
\* aside
LookupDirs == (CurrentDirs \cup DirNodes \cup fs.dirs) \ {"/"}

\* FindPackageTarget leaving the BUILD file it looked for behind
CallFindPackageTarget_creating ==
    \E dir \in LookupDirs :
        LET r == FindPackageTarget(fs, dir)
        IN  /\ call' = [op |-> "FindPackageTarget", dir |-> dir,
                        target |-> r.target, err |-> r.err]
            /\ prev' = IF prev.op = "untracked" THEN prev ELSE call
            /\ fs' = [fs EXCEPT !.files = @ \cup {Join(dir, "BUILD")}]
            /\ UNCHANGED <<currentDir, importPath, knownTargets, listing>>

CallFindPackageTarget ==
    \E dir \in LookupDirs :
        LET r == FindPackageTarget(fs, dir)
        IN  /\ call' = [op |-> "FindPackageTarget", dir |-> dir,
                        target |-> r.target, err |-> r.err]
            /\ Returned

\* the Import record is one a parse produced: its Type is the kind either
\* classifier variant gives its Path
CallResolveDependency ==
    \E type \in {classifyImportType(importPath),
                  classifyImportType_noAsset(importPath)} :
        LET imp == [Path |-> importPath, Type |-> type]
            r == ResolveDependency(fs, imp, currentDir)
        IN  /\ call' = [op |-> "ResolveDependency", imp |-> imp,
                        target |-> r.target, err |-> r.err, lookedUp |-> r.lookedUp]
            /\ Returned

CallClassifyFileType ==
    \E i \in DOMAIN listing.entries :
        LET e == listing.entries[i]
        IN  /\ call' = [op |-> "classifyFileType", filename |-> e.name,
                        content |-> ContentOf(e),
                        ret |-> classifyFileType(e.name, ContentOf(e))]
            /\ Returned

\* File.KindType, IsTest and IsCmd of a parsed file
CallKindType ==
    \E i \in DOMAIN listing.entries :
        LET r == parseFile(currentDir, listing.entries[i])
        IN  /\ ~r.panic
            /\ r.err.nil
            /\ call' = [op |-> "KindType", file |-> r.file,
                        kind |-> KindType(r.file),
                        isTest |-> IsTest(r.file), isCmd |-> IsCmd(r.file)]
            /\ Returned

\* parseFile, on the entries ImportDir hands it
CallParseFile ==
    \E i \in DOMAIN listing.entries :
        LET e == listing.entries[i]
            r == parseFile(currentDir, e)
        IN  /\ e.regular
            /\ isJavaScriptFile(e.name)
            /\ call' = [op |-> "parseFile", entry |-> e, panic |-> r.panic,
                        file |-> r.file, err |-> r.err]
            /\ Returned

CallImportDir ==
    LET r == ImportDir(currentDir, listing)
    IN  /\ call' = [op |-> "ImportDir", panic |-> r.panic, isNil |-> r.isNil,
                    ret |-> r.ret, err |-> r.err]
        /\ Returned

NextClassify ==
    \/ CallIsNodeBuiltin
    \/ CallClassifyImportType
    \/ CallClassifyImportTypeNoAsset
    \/ CallResolveRelativeImport

Next ==
    \/ CallResolveRelativeImport
    \/ CallFindPackageTarget
    \/ CallResolveDependency

SpecClassify == InitClassify /\ [][NextClassify]_vars

NextConfig ==
    \/ CallResolveDependency
    \/ CallFindPackageTarget

NextFileType ==
    \/ CallClassifyFileType
    \/ CallKindType

NextParse == CallParseFile

NextDir ==
    \/ CallImportDir
    \/ CallParseFile

Spec == Init /\ [][Next]_vars

SpecFileType == InitFileType /\ [][NextFileType]_vars

SpecParse == InitParse /\ [][NextParse]_vars

SpecDir == InitDir /\ [][NextDir]_vars

SpecConfig == InitConfig /\ [][NextConfig]_vars

SpecRepeat == InitRepeat /\ [][Next]_vars

SpecTargets == InitTargets /\ [][Next]_vars

(***************************************************************************)
(* The claims                                                              *)
(***************************************************************************)
\* what the claims call a relative path
StartsRelative(p) == HasPrefix(p, "./") \/ HasPrefix(p, "../")

\* the forms of a builtin x: x, node:x, x/y, node:x/y
BuiltinForm(p) ==
    \E x \in nodeBuiltins :
        \/ p = x
        \/ p = "node:" \o x
        \/ HasPrefix(p, x \o "/")
        \/ HasPrefix(p, "node:" \o x \o "/")

\* the joined path of the import under resolution
Joined == Join(currentDir, importPath)

Exists(path) == path \in fs.files \cup fs.dirs

\* the extensions, by position in the priority list, for which base.<ext> exists
ExtHits(base) == {i \in 1..Len(Exts) : Exists(base \o Exts[i])}

\* C1: classifyImportType returns one of Relative, Builtin, External and
\* never a fourth kind; a path with an asset suffix is classified like any
\* other path: Relative when it starts with ./ or ../, External when it does
\* not (builtin forms aside).
C1_ThreeKindsOnly ==
    call.op = "classifyImportType" =>
        /\ call.kind \in {RelativeImport, BuiltinImport, BareImport}
        /\ (Ext(importPath) \in AssetExts /\ ~BuiltinForm(importPath)) =>
               call.kind = IF StartsRelative(importPath) THEN RelativeImport
                           ELSE BareImport

\* C2: classifyImportType applies its rules in order, first match wins:
\* Builtin when the path has a builtin form; otherwise Relative exactly when
\* it starts with ./ or ../ or is . or ..; otherwise External.
C2_OrderedRules ==
    call.op \in {"classifyImportType", "classifyImportType_noAsset"} =>
        call.kind = IF BuiltinForm(importPath) THEN BuiltinImport
                    ELSE IF StartsRelative(importPath) \/ importPath \in {".", ".."}
                         THEN RelativeImport
                    ELSE BareImport

\* C3: for every allow-listed x, IsNodeBuiltin accepts x, node:x, x/y and
\* node:x/y, and both classifier variants return Builtin for them.
C3_BuiltinForms ==
    BuiltinForm(importPath) =>
        /\ call.op = "IsNodeBuiltin" => call.ret
        /\ call.op \in {"classifyImportType", "classifyImportType_noAsset"} =>
               call.kind = BuiltinImport

C3_Witness ==
    /\ call.op = "classifyImportType_noAsset"
    /\ importPath = "node:fs/a"
    /\ call.kind = BuiltinImport

C5_ExactCaseSensitive ==
    (/\ call.op = "IsNodeBuiltin"
     /\ importPath \notin nodeBuiltins
     /\ \/ importPath = ""
        \/ \E x \in nodeBuiltins : Len(importPath) < Len(x) /\ HasPrefix(x, importPath)
        \/ \E x \in nodeBuiltins : ToLower(importPath) = ToLower(x))
    => ~call.ret

C5_Witness ==
    /\ call.op = "IsNodeBuiltin"
    /\ importPath = "FS"
    /\ ~call.ret

\* C6: for a relative import ./x from d with no regular file at d/x, if
\* d/x.<ext> exists for some extension of the priority list, the result is
\* d/x.<ext> for the first such extension, also when d/x is a directory.
C6_FirstExtensionWins ==
    (/\ call.op = "ResolveRelativeImport"
     /\ StartsRelative(importPath)
     /\ ~HasSuffix(importPath, "/")
     /\ Joined \notin fs.files
     /\ ExtHits(Joined) # {})
    => /\ call.err.nil
       /\ call.path = Joined \o Exts[SetMin(ExtHits(Joined))]

\* C7: for a relative import whose joined path is a directory, with no
\* path+extension candidate, if the directory holds index.<ext> the result
\* is the index file of the first such extension, not the directory.
C7_IndexFile ==
    (/\ call.op = "ResolveRelativeImport"
     /\ StartsRelative(importPath)
     /\ Joined \in fs.dirs
     /\ ExtHits(Joined) = {}
     /\ ExtHits(Joined \o "/index") # {})
    => /\ call.err.nil
       /\ call.path = Joined \o "/index" \o Exts[SetMin(ExtHits(Joined \o "/index"))]

\* C8: when none of the exact path, the path+extension candidates and the
\* index candidates exists, the result is an empty path and the error
\* could not resolve import <raw> from <dir>.
C8_UnresolvedError ==
    (/\ call.op = "ResolveRelativeImport"
     /\ StartsRelative(importPath) \/ importPath \in {".", ".."}
     /\ ~Exists(Joined)
     /\ ExtHits(Joined) = {}
     /\ ExtHits(Joined \o "/index") = {})
    => /\ call.path = ""
       /\ call.err = Errorf("could not resolve import " \o Quote(importPath)
                            \o " from " \o Quote(currentDir))

C10_OwningUnit ==
    (/\ call.op = "ResolveDependency"
     /\ call.imp.Type = RelativeImport
     /\ call.err.nil)
    => call.lookedUp =
         IF Joined \in fs.dirs THEN Joined
         ELSE Dir(ResolveRelativeImport(fs, currentDir, importPath).path)

\* the filesystem f with a BUILD file in dir
WithBuild(f, dir) == [f EXCEPT !.files = @ \cup {Join(dir, "BUILD")}]

\* the filesystem f without a BUILD file in dir
WithoutBuild(f, dir) == [f EXCEPT !.files = @ \ {Join(dir, "BUILD")}]

\* C11: the target FindPackageTarget returns for a directory is not empty
\* and is the same whether the directory holds a BUILD file or not.
C11_TargetFromDirOnly ==
    call.op = "FindPackageTarget"
    => /\ call.target # ""
       /\ call.target = FindPackageTarget(WithBuild(fs, call.dir), call.dir).target
       /\ call.target = FindPackageTarget(WithoutBuild(fs, call.dir), call.dir).target

\* C12: for an import of type Builtin, ResolveDependency returns the empty
\* target and no error, and consults nothing of the filesystem: no directory
\* is looked up, and the answer does not change with the BUILD file of the
\* importing directory.
C12_BuiltinNoTarget ==
    (call.op = "ResolveDependency" /\ call.imp.Type = BuiltinImport)
    => /\ call.target = ""
       /\ call.err.nil
       /\ call.lookedUp = ""
       /\ \A f \in {WithBuild(fs, currentDir), WithoutBuild(fs, currentDir)} :
             ResolveDependency(f, call.imp, currentDir)
               = [target |-> "", err |-> NoErr, lookedUp |-> ""]

C12_Witness ==
    /\ call.op = "ResolveDependency"
    /\ call.imp = [Path |-> "node:fs", Type |-> BuiltinImport]
    /\ fs.files # {}
    /\ call.target = ""
    /\ call.err.nil

\* C13: ResolveDependency returns the empty target with no error exactly
\* for Builtin imports; a Relative import resolved without error has a
\* target that is not empty, whatever the filesystem holds.
C13_EmptyIffBuiltin ==
    call.op = "ResolveDependency"
    => /\ (call.target = "" /\ call.err.nil) <=> call.imp.Type = BuiltinImport
       /\ (call.imp.Type = RelativeImport /\ call.err.nil) => call.target # ""

\* C14: when the merged configuration holds a known-target override keyed by
\* the exact path of an external import, ResolveDependency returns the
\* target of that override and no error.
C14_OverrideWins ==
    (call.op = "ResolveDependency" /\ call.imp.Type = BareImport)
    => \A o \in knownTargets :
         o.path = call.imp.Path => (call.target = o.target /\ call.err.nil)

\* two calls ask the same thing
SameRequest(c, d) ==
    /\ c.op = d.op
    /\ c.op = "FindPackageTarget" => c.dir = d.dir
    /\ c.op = "ResolveDependency" => c.imp = d.imp

SourceExts == {".js", ".jsx", ".ts", ".tsx", ".mjs", ".cjs"}

\* the name matches one of the globs *.test.*, *.spec.*, *_test.*, whatever
\* the case of its letters
MatchesTestGlob(name) ==
    \E m \in {".test.", ".spec.", "_test."} : Contains(ToLower(name), m)

\* C16: classifyFileType returns Test for every file name that matches one
\* of the globs *.test.*, *.spec.*, *_test.* in any letter case and has one
\* of the source extensions.
C16_TestGlobs ==
    (/\ call.op = "classifyFileType"
     /\ MatchesTestGlob(call.filename)
     /\ ToLower(Ext(call.filename)) \in SourceExts)
    => call.ret = Test

\* C17: for a file name that matches no test pattern, classifyFileType
\* returns Binary exactly when the first two bytes of the content are "#!",
\* whatever the length of the content.
C17_ShebangIffBinary ==
    (call.op = "classifyFileType" /\ ~MatchesTestGlob(call.filename))
    => (call.ret = Binary <=> HasPrefix(call.content, "#!"))

\* C18: KindType maps Library to kinds.Lib, Test to kinds.Test and Binary
\* to kinds.Bin; exactly one of IsTest, IsCmd and "is a library" holds of a
\* file, and KindType returns the kind of the one that holds.
C18_KindOfRole ==
    call.op = "KindType"
    => LET ft == call.file.FileType
           isLib == ft = Library
       IN  /\ ft = Library => call.kind = kindsLib
           /\ ft = Test => call.kind = kindsTest
           /\ ft = Binary => call.kind = kindsBin
           /\ Cardinality({r \in {"test", "cmd", "lib"} :
                              \/ r = "test" /\ call.isTest
                              \/ r = "cmd" /\ call.isCmd
                              \/ r = "lib" /\ isLib}) = 1
           /\ call.isTest <=> call.kind = kindsTest
           /\ call.isCmd <=> call.kind = kindsBin
           /\ isLib <=> call.kind = kindsLib

C18_Witness ==
    /\ call.op = "KindType"
    /\ call.file.FileType = Binary
    /\ call.isCmd
    /\ ~call.isTest
    /\ call.kind = kindsBin

\* C19: ImportDir returns the record of every file of the directory that
\* parses, whether or not another file of the directory fails to be read or
\* parsed.
C19_SiblingsKept ==
    (call.op = "ImportDir" /\ listing.ok)
    => \A i \in DOMAIN listing.entries :
          LET e == listing.entries[i]
              r == parseFile(currentDir, e)
          IN  (e.regular /\ isJavaScriptFile(e.name) /\ ~r.panic /\ r.err.nil)
              => /\ ~call.isNil
                 /\ e.name \in DOMAIN call.ret
                 /\ call.ret[e.name] = r.file

\* the names an import statement binds, in the order they are written
WrittenNames(s) ==
    (IF s.default # "" THEN <<s.default>> ELSE <<>>)
    \o (IF s.namespace # "" THEN <<s.namespace>> ELSE <<>>)
    \o [i \in DOMAIN s.named |-> s.named[i].name]

\* the path and name of every import of the statements, in source order
RECURSIVE WrittenImports(_)
WrittenImports(stmts) ==
    IF Len(stmts) = 0 THEN <<>>
    ELSE LET s == Head(stmts)
         IN  (IF s.kind = "import"
              THEN IF s.path = "" THEN <<>>
                   ELSE IF Len(WrittenNames(s)) = 0 THEN <<<<s.path, "">>>>
                   ELSE [i \in DOMAIN WrittenNames(s) |-> <<s.path, WrittenNames(s)[i]>>]
              ELSE IF s.kind = "block" THEN WrittenImports(s.body)
              ELSE <<>>)
             \o WrittenImports(Tail(stmts))

IsPrefixOf(p, q) == Len(p) <= Len(q) /\ SubSeq(q, 1, Len(p)) = p

\* C20: the Imports of a parsed file are in source order: statement after
\* statement and, within a statement, name after name as written; the
\* records of the first statements of a file are a prefix of the records of
\* the whole file.
C20_SourceOrder ==
    (call.op = "parseFile" /\ ~call.panic /\ call.err.nil)
    => /\ [i \in DOMAIN call.file.Imports |->
             <<call.file.Imports[i].Path, call.file.Imports[i].ImportedName>>]
            = WrittenImports(call.entry.stmts)
       /\ \A k \in 0..Len(call.entry.stmts) :
             IsPrefixOf(parseFile(currentDir,
                                  [call.entry EXCEPT !.stmts = SubSeq(@, 1, k)]).file.Imports,
                        call.file.Imports)

C20_Witness ==
    /\ call.op = "parseFile"
    /\ ~call.panic
    /\ Len(call.entry.stmts) = 2
    /\ Len(call.file.Imports) = 4
    /\ call.file.Imports[1].Path = "lodash"
    /\ call.file.Imports[2].ImportedName = "y"
    /\ call.file.Imports[3].Path = "./b"
    /\ call.file.Imports[4].ImportedName = "x"

\* the import statements of a file in source order, those of blocks included
RECURSIVE ImportStmtsOf(_)
ImportStmtsOf(stmts) ==
    IF Len(stmts) = 0 THEN <<>>
    ELSE LET s == Head(stmts)
         IN  (IF s.kind = "import" THEN <<s>>
              ELSE IF s.kind = "block" THEN ImportStmtsOf(s.body)
              ELSE <<>>)
             \o ImportStmtsOf(Tail(stmts))

\* the number of records an import statement is to contribute
RecordsDue(s) ==
    IF s.path = "" THEN 0
    ELSE IF Len(WrittenNames(s)) = 0 THEN 1
    ELSE Len(WrittenNames(s))

RECURSIVE TotalDue(_)
TotalDue(flat) == IF Len(flat) = 0 THEN 0 ELSE RecordsDue(Head(flat)) + TotalDue(Tail(flat))

\* the records of a file cut statement by statement: for each import
\* statement, in source order, the records that are its due
RECURSIVE Segments(_, _)
Segments(flat, imports) ==
    IF Len(flat) = 0 THEN <<>>
    ELSE LET n == RecordsDue(Head(flat))
             m == IF n <= Len(imports) THEN n ELSE Len(imports)
         IN  <<[stmt |-> Head(flat), recs |-> SubSeq(imports, 1, m)]>>
             \o Segments(Tail(flat), SubSeq(imports, m + 1, Len(imports)))

\* the statements and records of the file the last parseFile returned
ParsedSegments == Segments(ImportStmtsOf(call.entry.stmts), call.file.Imports)

ParsedFile == call.op = "parseFile" /\ ~call.panic /\ call.err.nil

\* C21: every Import record of a parsed file has a Path that is not empty
\* and the Type classifyImportType gives that Path; an import statement
\* whose path is empty contributes no record, the other statements keeping
\* theirs.
C21_PathAndType ==
    ParsedFile
    => /\ \A i \in DOMAIN call.file.Imports :
             /\ call.file.Imports[i].Path # ""
             /\ call.file.Imports[i].Type = classifyImportType(call.file.Imports[i].Path)
       /\ Len(call.file.Imports) = TotalDue(ImportStmtsOf(call.entry.stmts))
       /\ \A j \in DOMAIN ParsedSegments :
             \A i \in DOMAIN ParsedSegments[j].recs :
                 ParsedSegments[j].recs[i].Path = ParsedSegments[j].stmt.path

C21_Witness ==
    /\ ParsedFile
    /\ Len(call.entry.stmts) = 2
    /\ call.entry.stmts[1].kind = "import"
    /\ call.entry.stmts[1].path = ""
    /\ call.entry.stmts[2].kind = "import"
    /\ Len(call.file.Imports) = 1
    /\ call.file.Imports[1].Path = "fs"
    /\ call.file.Imports[1].Type = BuiltinImport

\* C22: an import statement with a path and k bound names contributes k
\* records when k >= 1, each with the path and the kind of the statement,
\* and one record with an empty ImportedName and IsDefault false when k = 0.
C22_RecordsPerStatement ==
    ParsedFile
    => /\ Len(call.file.Imports) = TotalDue(ImportStmtsOf(call.entry.stmts))
       /\ \A j \in DOMAIN ParsedSegments :
             LET s == ParsedSegments[j].stmt
                 recs == ParsedSegments[j].recs
                 k == Len(WrittenNames(s))
             IN  s.path # ""
                 => /\ \A i \in DOMAIN recs :
                         /\ recs[i].Path = s.path
                         /\ recs[i].Type = classifyImportType(s.path)
                    /\ k >= 1 => Len(recs) = k
                    /\ k = 0 => recs = <<[Path |-> s.path, ImportedName |-> "",
                                          Type |-> classifyImportType(s.path),
                                          IsDefault |-> FALSE]>>

C22_Witness ==
    /\ ParsedFile
    /\ Len(call.entry.stmts) = 2
    /\ call.entry.stmts[1].kind = "import"
    /\ call.entry.stmts[1].path = "lodash"
    /\ call.entry.stmts[2].kind = "import"
    /\ call.entry.stmts[2].path = "./s.css"
    /\ Len(call.file.Imports) = 3
    /\ call.file.Imports[3].ImportedName = ""
    /\ ~call.file.Imports[3].IsDefault

\* the export statements of a file, those of blocks included
RECURSIVE ExportStmtsOf(_)
ExportStmtsOf(stmts) ==
    IF Len(stmts) = 0 THEN <<>>
    ELSE LET s == Head(stmts)
         IN  (IF s.kind = "export" THEN <<s>>
              ELSE IF s.kind = "block" THEN ExportStmtsOf(s.body)
              ELSE <<>>)
             \o ExportStmtsOf(Tail(stmts))

\* the file has a default export
HasDefaultExport(stmts) ==
    \E i \in DOMAIN ExportStmtsOf(stmts) :
        HasPrefix(ExportStmtsOf(stmts)[i].text, "export default")

\* C23: parseFile returns for a file that holds export statements, and
\* the HasDefault of the file it returns is true exactly when the file holds
\* a default export.
C23_ExportsParsed ==
    (call.op = "parseFile" /\ call.entry.readable)
    => /\ ~call.panic
       /\ call.err.nil
       /\ call.file.HasDefault <=> HasDefaultExport(call.entry.stmts)

\* C24: classifyFileType returns one of Library, Test, Binary; a file whose
\* name matches a test pattern and whose content starts with "#!" is Test; a
\* file of neither is Library; the role is the same for every content with
\* the same first two bytes.
C24_TotalOrdered ==
    call.op = "classifyFileType"
    => /\ call.ret \in {Library, Test, Binary}
       /\ (MatchesTestGlob(call.filename) /\ HasPrefix(call.content, "#!"))
            => call.ret = Test
       /\ (~MatchesTestGlob(call.filename) /\ ~HasPrefix(call.content, "#!"))
            => call.ret = Library
       /\ \A c \in Contents :
             (HasPrefix(c, "#!") <=> HasPrefix(call.content, "#!"))
             => classifyFileType(call.filename, c) = call.ret

\* C25: of the records of one import statement at most one has IsDefault
\* true, and it is the record of the default binding: the first record of a
\* statement that has a default binding.
C25_OneDefault ==
    ParsedFile
    => \A j \in DOMAIN ParsedSegments :
          LET s == ParsedSegments[j].stmt
              recs == ParsedSegments[j].recs
          IN  /\ Cardinality({i \in DOMAIN recs : recs[i].IsDefault}) <= 1
              /\ \A i \in DOMAIN recs :
                    recs[i].IsDefault => (s.default # "" /\ i = 1)

\* the directory holds a BUILD file
HoldsBuild(dir) == Stat(fs, Join(dir, "BUILD")) = "ok"

\* C26: FindPackageTarget returns different targets for two different
\* directories that both hold a BUILD file.
C26_InjectiveTargets ==
    (call.op = "FindPackageTarget" /\ HoldsBuild(call.dir))
    => \A d \in fs.dirs :
          (d # call.dir /\ HoldsBuild(d))
          => FindPackageTarget(fs, d).target # call.target

\* C27: ResolveRelativeImport returns a path with a nil error only if
\* something exists at that path.
C27_ResolvedExists ==
    (call.op = "ResolveRelativeImport" /\ call.err.nil)
    => Stat(fs, call.path) = "ok"

\* C28: ResolveDependency never returns a target that is not empty together
\* with an error; on every error the target is empty and the message of the
\* error holds the raw import path.
C28_NoTargetWithError ==
    (call.op = "ResolveDependency" /\ ~call.err.nil)
    => /\ call.target = ""
       /\ Contains(call.err.msg, Quote(call.imp.Path))

C28_Witness ==
    /\ call.op = "ResolveDependency"
    /\ call.imp = [Path |-> "lodash", Type |-> BareImport]
    /\ ~call.err.nil
    /\ call.target = ""
    /\ call.err.msg = "bare import resolution not implemented: \"lodash\""

\* C29: the variant of classifyImportType with the AssetImport kind and the
\* variant without it return the same kind for every import path.
C29_VariantsAgree ==
    call.op = "classifyImportType"
    => call.kind = classifyImportType_noAsset(importPath)

=============================================================================
